---------------------------- MODULE Spec2Model ----------------------------
(***************************************************************************)
(* The ray tracer of src/src/lib.rs: Canvas::put_pixel, Scalable::scale,   *)
(* render, canvas_to_viewport, trace_ray, intersect_ray_sphere and         *)
(* compute_lighting.                                                       *)
(*                                                                         *)
(* f64 values are modelled as exact fractions n/d (d > 0), with the three  *)
(* special values of the type: +INFINITY (1/0), -INFINITY (-1/0) and NaN   *)
(* (0/0).          The inputs the specifications enumerate are chosen so   *)
(* that every square root taken is the root of a perfect square and every  *)
(* value that is truncated (scale's cast to u8) is a dyadic fraction, so   *)
(* the f64 computation is exact there; the remaining values are only       *)
(* compared, and rounding to nearest keeps the order and the equality of   *)
(* fractions this small.  The sign of zero is not tracked: no input here   *)
(* divides a nonzero value by a negative zero.                             *)
(***************************************************************************)
EXTENDS Integers, Sequences, FiniteSets

VARIABLES
    scene,          \* Scene { objects, lights }
    pc,             \* position of the running function
    canvas,         \* Canvas { image }: [width, height, image]
    writes,         \* history: how often each buffer cell was written
    px,             \* render: loop variable x
    py,             \* render: loop variable y
    saves,          \* history: calls of image.save made so far
    call,           \* history: arguments of the last Canvas::put_pixel call
    ray,            \* trace_ray's arguments origin, direction, t_min, t_max
    next,           \* trace_ray: index of the next element of scene.objects
    closest_t,      \* trace_ray: closest_t
    closest_sphere, \* trace_ray: closest_sphere (0 is None, i is Some(&objects[i]))
    arg,            \* scale's arguments: [color, scalar]
    result          \* the colour returned (<<>> while there is none)

vars == <<scene, pc, canvas, writes, px, py, saves, call, ray, next,
          closest_t, closest_sphere, arg, result>>

---------------------------------------------------------------------------
(* Bounds of the model. *)

\* longest scene.objects list enumerated for trace_ray
MaxObjects == 2

\* largest canvas width and height enumerated
MaxDim == 4

\* largest width and height of a canvas a client of put_pixel writes to
MaxSide == 2

\* scale's scalars are the quarters 0/4 .. MaxQuarters/4
MaxQuarters == 10

---------------------------------------------------------------------------
(* f64 *)
(* Each operation is a function applied to its operands, so that an operand  *)
(* is evaluated once, like a Rust expression, however often the operation's  *)
(* definition mentions it.                                                   *)

Abs(i) == IF i < 0 THEN -i ELSE i

Sign(i) == IF i < 0 THEN -1 ELSE IF i = 0 THEN 0 ELSE 1

GCD[a \in Nat, b \in Nat] == IF b = 0 THEN a ELSE GCD[b, a % b]

\* the f64 values: n/d with d > 0, +INFINITY 1/0, -INFINITY -1/0, NaN 0/0
Float == [n : Int, d : Nat]

FracF[n \in Int, d \in Nat] ==
    IF d = 0 THEN [n |-> Sign(n), d |-> 0]
    ELSE LET g == GCD[Abs(n), d] IN [n |-> n \div g, d |-> d \div g]

\* the fraction n/d, d >= 0, in lowest terms; d = 0 gives an infinity or NaN
Frac(n, d) == FracF[n, d]

FromInt(i) == [n |-> i, d |-> 1]

INFINITY == [n |-> 1, d |-> 0]

NaN == [n |-> 0, d |-> 0]

IsNaN(x) == x.d = 0 /\ x.n = 0

IsInfinite(x) == x.d = 0 /\ x.n # 0

FNegF[x \in Float] == [n |-> -x.n, d |-> x.d]

FNeg(x) == FNegF[x]

FAddF[x \in Float, y \in Float] ==
    IF IsNaN(x) \/ IsNaN(y) THEN NaN
    ELSE IF IsInfinite(x) /\ IsInfinite(y) THEN (IF x.n = y.n THEN x ELSE NaN)
    ELSE Frac(x.n * y.d + y.n * x.d, x.d * y.d)

FAdd(x, y) == FAddF[x, y]

FSub(x, y) == FAdd(x, FNeg(y))

FMulF[x \in Float, y \in Float] ==
    IF IsNaN(x) \/ IsNaN(y) THEN NaN
    ELSE Frac(x.n * y.n, x.d * y.d)

FMul(x, y) == FMulF[x, y]

FDivF[x \in Float, y \in Float] ==
    IF IsNaN(x) \/ IsNaN(y) THEN NaN
    ELSE IF y.n < 0 THEN Frac(-(x.n * y.d), x.d * (-y.n))
    ELSE Frac(x.n * y.d, x.d * y.n)

FDiv(x, y) == FDivF[x, y]

FLtF[x \in Float, y \in Float] ==
    /\ ~IsNaN(x)
    /\ ~IsNaN(y)
    /\ IF IsInfinite(x) /\ IsInfinite(y) THEN x.n < y.n
       ELSE x.n * y.d < y.n * x.d

\* x < y; every comparison with NaN is false
FLt(x, y) == FLtF[x, y]

FGt(x, y) == FLt(y, x)

FMinF[x \in Float, y \in Float] ==
    IF IsNaN(x) THEN y ELSE IF IsNaN(y) THEN x ELSE IF FLt(y, x) THEN y ELSE x

FMaxF[x \in Float, y \in Float] ==
    IF IsNaN(x) THEN y ELSE IF IsNaN(y) THEN x ELSE IF FLt(x, y) THEN y ELSE x

\* f64::min and f64::max: a NaN operand is ignored
FMin(x, y) == FMinF[x, y]

FMax(x, y) == FMaxF[x, y]

\* the root of a perfect square
ISqrt(i) == CHOOSE k \in 0..i : k * k = i

FSqrtF[x \in Float] ==
    IF IsNaN(x) \/ x.n < 0 THEN NaN
    ELSE IF x.d = 0 THEN x
    ELSE Frac(ISqrt(x.n), ISqrt(x.d))

FSqrt(x) == FSqrtF[x]

FPowiF[x \in Float, k \in Int] ==
    IF k = 0 THEN FromInt(1)
    ELSE IF k < 0 THEN FDiv(FromInt(1), FPowiF[x, -k])
    ELSE FMul(x, FPowiF[x, k - 1])

FPowi(x, k) == FPowiF[x, k]

AsU8F[x \in Float] ==
    IF IsNaN(x) \/ x.n <= 0 THEN 0
    ELSE IF x.d = 0 \/ x.n >= 255 * x.d THEN 255
    ELSE x.n \div x.d

\* `as u8`: truncates toward zero and saturates; NaN becomes 0
AsU8(x) == AsU8F[x]

---------------------------------------------------------------------------
(* Vector3<f64> *)

Vector == Float \X Float \X Float

Vec(a, b, c) == <<FromInt(a), FromInt(b), FromInt(c)>>

VAdd(u, v) == <<FAdd(u[1], v[1]), FAdd(u[2], v[2]), FAdd(u[3], v[3])>>

VSub(u, v) == <<FSub(u[1], v[1]), FSub(u[2], v[2]), FSub(u[3], v[3])>>

VNeg(u) == <<FNeg(u[1]), FNeg(u[2]), FNeg(u[3])>>

VScale(u, k) == <<FMul(u[1], k), FMul(u[2], k), FMul(u[3], k)>>

DotF[u \in Vector, v \in Vector] ==
    FAdd(FAdd(FMul(u[1], v[1]), FMul(u[2], v[2])), FMul(u[3], v[3]))

Dot(u, v) == DotF[u, v]

DivideF[u \in Vector, norm \in Float] ==
    <<FDiv(u[1], norm), FDiv(u[2], norm), FDiv(u[3], norm)>>

NormalizeF[u \in Vector] == DivideF[u, FSqrt(Dot(u, u))]

\* nalgebra's normalize: the vector divided by its norm
Normalize(u) == NormalizeF[u]

---------------------------------------------------------------------------
(* Rgb<u8>, Sphere, Light, Scene *)

Channels == {1, 2, 3}

\* Option<i32>: <<>> is None, <<k>> is Some(k)
None == <<>>

Some(k) == <<k>>

Rgb == Nat \X Nat \X Nat

SphereT == [center : Vector, radius : Nat, color : Rgb, shininess : Seq(Int)]

Sphere(center, radius, color, shininess) ==
    [center |-> center, radius |-> radius, color |-> color, shininess |-> shininess]

\* LightKind::Ambient carries no vector; v is unused for it
Ambient(intensity) == [kind |-> "Ambient", v |-> Vec(0, 0, 0), intensity |-> intensity]

Point(position, intensity) == [kind |-> "Point", v |-> position, intensity |-> intensity]

Directional(direction, intensity) ==
    [kind |-> "Directional", v |-> direction, intensity |-> intensity]

Scene(objects, lights) == [objects |-> objects, lights |-> lights]

\* the colour trace_ray returns when no sphere is hit
Background == <<255, 255, 255>>

\* RgbImage::new: every channel of every pixel is 0
Black == <<0, 0, 0>>

---------------------------------------------------------------------------
(* impl Scalable for Rgb<u8> *)

\* mutant of ScaleChannel: the product is cast without `.min(255.0)` by a cast
\* that wraps around modulo 256
ScaleChannelWrapping(channel, scalar) ==
    LET product == FMul(FromInt(channel), scalar)
    IN  IF product.d = 0 THEN 0 ELSE (product.n \div product.d) % 256

\* the body of `for i in 0..3`: the new channel i
ScaleChannel(channel, scalar) ==
    AsU8(FMin(FMul(FromInt(channel), scalar), FromInt(255)))

scale(color, scalar) ==
    <<ScaleChannel(color[1], scalar), ScaleChannel(color[2], scalar),
      ScaleChannel(color[3], scalar)>>

---------------------------------------------------------------------------
(* intersect_ray_sphere *)

\* (r*r is a u32 product; the radii enumerated here are far below 65536, where
\* it would overflow.)
IntersectF[origin \in Vector, direction \in Vector, sphere \in SphereT] ==
    LET r    == sphere.radius
        co   == VSub(origin, sphere.center)
        a    == Dot(direction, direction)
        b    == FMul(FromInt(2), Dot(co, direction))
        c    == FSub(Dot(co, co), FromInt(r * r))
        discriminant == FSub(FMul(b, b), FMul(FMul(FromInt(4), a), c))
        t1   == FDiv(FAdd(FNeg(b), FSqrt(discriminant)), FMul(FromInt(2), a))
        t2   == FDiv(FSub(FNeg(b), FSqrt(discriminant)), FMul(FromInt(2), a))
    IN  IF FLt(discriminant, FromInt(0)) THEN <<INFINITY, INFINITY>>
        ELSE <<t1, t2>>

intersect_ray_sphere(origin, direction, sphere) == IntersectF[origin, direction, sphere]

---------------------------------------------------------------------------
(* compute_lighting *)

\* one iteration of the loop over scene.lights: the new value of illumination
LightStep(illumination, light, point, normal, view, shininess) ==
    IF light.kind = "Ambient" THEN FAdd(illumination, light.intensity)
    ELSE
      LET point_to_light ==
              IF light.kind = "Point" THEN Normalize(VSub(light.v, point))
              ELSE Normalize(light.v)
          diffuse ==
              FAdd(illumination,
                   FMul(light.intensity, FMax(Dot(normal, point_to_light), FromInt(0))))
          reflection ==
              VSub(VScale(normal, FMul(FromInt(2), Dot(normal, point_to_light))),
                   point_to_light)
          nview == Normalize(view)
      IN  IF shininess = None THEN diffuse
          ELSE FAdd(diffuse,
                    FMul(light.intensity,
                         FPowi(FMax(Dot(reflection, nview), FromInt(0)), shininess[1])))

RECURSIVE LightLoop(_, _, _, _, _, _, _)
LightLoop(illumination, lights, k, point, normal, view, shininess) ==
    IF k > Len(lights) THEN illumination
    ELSE LightLoop(LightStep(illumination, lights[k], point, normal, view, shininess),
                   lights, k + 1, point, normal, view, shininess)

\* mutant of compute_lighting: illumination starts at 1.0
LightingFromOne(sc, point, normal, view, shininess) ==
    LightLoop(FromInt(1), sc.lights, 1, point, normal, view, shininess)

compute_lighting(sc, point, normal, view, shininess) ==
    LightLoop(FromInt(0), sc.lights, 1, point, normal, view, shininess)

---------------------------------------------------------------------------
(* trace_ray *)

\* closest_t and closest_sphere (0 is None, i is Some(&objects[i]))
Hit == [t : Float, sphere : Nat]

\* mutant of TestRoot: a root equal to closest_t replaces the hit too
TestRootOrEqual(hit, t, i, t_min, t_max) ==
    IF (FGt(t, t_min) /\ FLt(t, t_max)) /\ (FLt(t, hit.t) \/ t = hit.t)
    THEN [t |-> t, sphere |-> i]
    ELSE hit

\* mutant of TestRoot: the root is not compared with t_min
TestRootNoMin(hit, t, i, t_min, t_max) ==
    IF FLt(t, t_max) /\ FLt(t, hit.t)
    THEN [t |-> t, sphere |-> i]
    ELSE hit

\* mutant of TestRoot: the root is not compared with closest_t
TestRootLast(hit, t, i, t_min, t_max) ==
    IF FGt(t, t_min) /\ FLt(t, t_max)
    THEN [t |-> t, sphere |-> i]
    ELSE hit

\* the body of `for t in [t1, t2]` for one root t of objects[i]
TestRoot(hit, t, i, t_min, t_max) ==
    IF (FGt(t, t_min) /\ FLt(t, t_max)) /\ FLt(t, hit.t)
    THEN [t |-> t, sphere |-> i]
    ELSE hit

\* `for t in [t1, t2]`; range is <<t_min, t_max>>
TestRoots[hit \in Hit, roots \in Float \X Float, i \in Nat, range \in Float \X Float] ==
    TestRoot(TestRoot(hit, roots[1], i, range[1], range[2]),
             roots[2], i, range[1], range[2])

\* mutant of ScanSphere: only t1 is tested
ScanSphereFirstRoot(hit, sc, r, i) ==
    TestRoot(hit, intersect_ray_sphere(r.origin, r.direction, sc.objects[i])[1],
             i, r.t_min, r.t_max)

\* the body of `for primitive in &scene.objects` for objects[i]
ScanSphere(hit, sc, r, i) ==
    TestRoots[hit, intersect_ray_sphere(r.origin, r.direction, sc.objects[i]),
              i, <<r.t_min, r.t_max>>]

RECURSIVE ScanFrom(_, _, _, _)
ScanFrom(hit, sc, r, i) ==
    IF i > Len(sc.objects) THEN hit
    ELSE ScanFrom(ScanSphere(hit, sc, r, i), sc, r, i + 1)

NoHit == [t |-> INFINITY, sphere |-> 0]

\* the match on closest_sphere
Shade(sc, r, hit) ==
    IF hit.sphere = 0 THEN Background
    ELSE
      LET sphere == sc.objects[hit.sphere]
          point  == VAdd(r.origin, VScale(r.direction, hit.t))
          normal == Normalize(VSub(point, sphere.center))
      IN  scale(sphere.color,
                compute_lighting(sc, point, normal, VNeg(r.direction), sphere.shininess))

trace_ray(sc, origin, direction, t_min, t_max) ==
    LET r == [origin |-> origin, direction |-> direction, t_min |-> t_min, t_max |-> t_max]
    IN  Shade(sc, r, ScanFrom(NoHit, sc, r, 1))

---------------------------------------------------------------------------
(* Canvas *)

\* Rust's `/` on i32: the quotient truncated toward zero.  (`width as i32` is
\* the width itself for every width below 2^31.)
TruncDiv(a, b) == Sign(a) * Sign(b) * (Abs(a) \div Abs(b))

Cells(width, height) == (0..(width - 1)) \X (0..(height - 1))

\* Canvas::new(width, height)
NewCanvas(width, height) ==
    [width |-> width, height |-> height,
     image |-> [cell \in Cells(width, height) |-> Black]]

\* the translated x of put_pixel
BufferX(cv, x) == TruncDiv(cv.width, 2) + x

\* mutant of BufferY: the row is not shifted by one
BufferYNoShift(cv, y) == TruncDiv(cv.height, 2) - y

\* the translated y of put_pixel
BufferY(cv, y) == TruncDiv(cv.height, 2) - (y + 1)

\* Canvas::put_pixel.  `x as u32` turns a negative index into one of at least
\* 2^31, above every width here, so RgbImage::put_pixel's bounds check fails
\* (a panic) exactly when the translated index is negative or too large.
put_pixel(cv, x, y, pixel) ==
    LET bx == BufferX(cv, x)
        by == BufferY(cv, y)
    IN  IF bx >= 0 /\ bx < cv.width /\ by >= 0 /\ by < cv.height
        THEN [ok |-> TRUE, canvas |-> [cv EXCEPT !.image[<<bx, by>>] = pixel]]
        ELSE [ok |-> FALSE, canvas |-> cv]

---------------------------------------------------------------------------
(* render *)

\* Viewport { width: 1, height: 1, distance: 1.0 }
Viewport == [width |-> 1, height |-> 1, distance |-> FromInt(1)]

canvas_to_viewport(x, y, cv, viewport) ==
    <<FDiv(FMul(FromInt(x), FromInt(viewport.width)), FromInt(cv.width)),
      FDiv(FMul(FromInt(y), FromInt(viewport.height)), FromInt(cv.height)),
      viewport.distance>>

\* the bounds of `for x in -cw/2..cw/2` and `for y in -ch/2..ch/2`
\* mutant of LoopLow: the quotient is rounded down instead of toward zero
LoopLowFloor(c) == (-c) \div 2

LoopLow(c) == TruncDiv(-c, 2)

LoopHigh(c) == TruncDiv(c, 2)

\* the colour render computes for pixel (x, y)
PixelColor(sc, cv, x, y) ==
    trace_ray(sc, Vec(0, 0, 0), canvas_to_viewport(x, y, cv, Viewport),
              FromInt(1), INFINITY)

---------------------------------------------------------------------------
(* Values of the variables a specification does not use. *)

NoScene == Scene(<<>>, <<>>)

NoCanvas == [width |-> 0, height |-> 0, image |-> <<>>]

NoRay == [origin |-> Vec(0, 0, 0), direction |-> Vec(0, 0, 0),
          t_min |-> FromInt(0), t_max |-> FromInt(0)]

NoArg == [color |-> Black, scalar |-> FromInt(0)]

NoCall == [x |-> 0, y |-> 0, pixel |-> Black, made |-> FALSE]

NoResult == <<>>

---------------------------------------------------------------------------
(* Spec: render(canvas, scene) on a new canvas. *)

Red == <<255, 0, 0>>

Blue == <<0, 0, 255>>

Orange == <<200, 100, 50>>

\* A sphere through the camera: its discriminant is b*b for every ray.
Touching(z, color) == Sphere(Vec(0, 0, z), Abs(z), color, Some(2))

RenderScenes ==
    { Scene(<<>>, <<Ambient(Frac(1, 2))>>),
      Scene(<<Touching(1, Red)>>, <<Ambient(Frac(1, 2))>>),
      Scene(<<Touching(2, Blue), Touching(1, Orange)>>,
            <<Ambient(Frac(1, 4)), Ambient(Frac(3, 2))>>),
      Scene(<<Touching(-1, Red)>>, <<>>) }

RenderInit ==
    /\ scene \in RenderScenes
    /\ \E w \in 1..MaxDim, h \in 1..MaxDim :
          /\ canvas = NewCanvas(w, h)
          /\ writes = [cell \in Cells(w, h) |-> 0]
          /\ px = LoopLow(w)
          /\ py = LoopLow(h)
    /\ pc = "for_x"
    /\ saves = 0
    /\ call = NoCall
    /\ ray = NoRay
    /\ next = 0
    /\ closest_t = INFINITY
    /\ closest_sphere = 0
    /\ arg = NoArg
    /\ result = NoResult

\* `for x in -cw/2..cw/2`: enter the body for x, or leave the loop
ForX ==
    /\ pc = "for_x"
    /\ IF px < LoopHigh(canvas.width)
       THEN pc' = "for_y" /\ py' = LoopLow(canvas.height)
       ELSE pc' = "save" /\ py' = py
    /\ UNCHANGED <<scene, canvas, writes, px, saves, call, ray, next,
                   closest_t, closest_sphere, arg, result>>

\* the body of `for y in -ch/2..ch/2` for the pixel (px, py)
RenderPixel ==
    /\ pc = "for_y"
    /\ py < LoopHigh(canvas.height)
    /\ LET color == PixelColor(scene, canvas, px, py)
           put   == put_pixel(canvas, px, py, color)
       IN  /\ call' = [x |-> px, y |-> py, pixel |-> color, made |-> TRUE]
           /\ result' = color
           /\ canvas' = put.canvas
           /\ IF put.ok
              THEN /\ writes' = [writes EXCEPT
                                   ![<<BufferX(canvas, px), BufferY(canvas, py)>>] = @ + 1]
                   /\ py' = py + 1
                   /\ pc' = pc
              ELSE /\ writes' = writes
                   /\ py' = py
                   /\ pc' = "panicked"
    /\ UNCHANGED <<scene, px, saves, ray, next, closest_t, closest_sphere, arg>>

\* mutant of EndForY: the image is saved inside the loop over x
EndForYSaving ==
    /\ pc = "for_y"
    /\ py >= LoopHigh(canvas.height)
    /\ px' = px + 1
    /\ saves' = saves + 1
    /\ pc' = "for_x"
    /\ UNCHANGED <<scene, canvas, writes, py, call, ray, next,
                   closest_t, closest_sphere, arg, result>>

\* the end of the loop over y: the next x
EndForY ==
    /\ pc = "for_y"
    /\ py >= LoopHigh(canvas.height)
    /\ px' = px + 1
    /\ pc' = "for_x"
    /\ UNCHANGED <<scene, canvas, writes, py, saves, call, ray, next,
                   closest_t, closest_sphere, arg, result>>

\* canvas.image.save("output.png").unwrap(): the write succeeds, or fails and
\* unwrap panics
Save ==
    /\ pc = "save"
    /\ saves' = saves + 1
    /\ \/ pc' = "done"
       \/ pc' = "save_failed"
    /\ UNCHANGED <<scene, canvas, writes, px, py, call, ray, next,
                   closest_t, closest_sphere, arg, result>>

Next == ForX \/ RenderPixel \/ EndForY \/ Save

Spec == RenderInit /\ [][Next]_vars

\* render is one sequential function: it keeps running until it returns or panics
FairSpec == Spec /\ WF_vars(Next)

---------------------------------------------------------------------------
(* CanvasSpec: a client of the public Canvas API calls put_pixel. *)

PutColors == {Red, Black}

CanvasInit ==
    /\ \E w \in 1..MaxSide, h \in 1..MaxSide : canvas = NewCanvas(w, h)
    /\ pc = "client"
    /\ call = NoCall
    /\ scene = NoScene
    /\ writes = <<>>
    /\ px = 0
    /\ py = 0
    /\ saves = 0
    /\ ray = NoRay
    /\ next = 0
    /\ closest_t = INFINITY
    /\ closest_sphere = 0
    /\ arg = NoArg
    /\ result = NoResult

\* canvas.put_pixel(x, y, pixel), with coordinates inside and outside the canvas
PutPixel ==
    /\ pc = "client"
    /\ \E x \in (-MaxSide)..MaxSide, y \in (-MaxSide)..MaxSide, pixel \in PutColors :
          LET put == put_pixel(canvas, x, y, pixel)
          IN  /\ call' = [x |-> x, y |-> y, pixel |-> pixel, made |-> TRUE]
              /\ canvas' = put.canvas
              /\ pc' = IF put.ok THEN "client" ELSE "panicked"
    /\ UNCHANGED <<scene, writes, px, py, saves, ray, next, closest_t,
                   closest_sphere, arg, result>>

CanvasNext == PutPixel

CanvasSpec == CanvasInit /\ [][CanvasNext]_vars

---------------------------------------------------------------------------
(* Claims about Canvas::put_pixel and render. *)

\* the centered coordinates the canvas documents as valid: [-C/2, C/2)
ValidCentered(cv, x, y) ==
    /\ -(cv.width \div 2) <= x
    /\ x < cv.width \div 2
    /\ -(cv.height \div 2) <= y
    /\ y < cv.height \div 2

\* C6: put_pixel(x, y, color) with (x, y) in the valid centered range does not
\* panic, writes color to the buffer cell (W/2 + x, H/2 - (y + 1)) and leaves
\* every other cell as it was.
C6_PutPixelWritesOneCell ==
    [][(pc = "client" /\ ValidCentered(canvas, call'.x, call'.y)) =>
          /\ pc' = "client"
          /\ canvas'.width = canvas.width
          /\ canvas'.height = canvas.height
          /\ \A cell \in Cells(canvas.width, canvas.height) :
                canvas'.image[cell] =
                   IF cell = <<(canvas.width \div 2) + call'.x,
                               (canvas.height \div 2) - (call'.y + 1)>>
                   THEN call'.pixel
                   ELSE canvas.image[cell]]_vars

\* centered (0,0) has been written to cell (W/2, H/2 - 1) of a 2 x 2 canvas
\* that already held another pixel
C6_Witness ==
    /\ pc = "client"
    /\ canvas.width = 2
    /\ canvas.height = 2
    /\ call = [x |-> 0, y |-> 0, pixel |-> Red, made |-> TRUE]
    /\ canvas.image[<<1, 0>>] = Red
    /\ canvas.image[<<0, 1>>] = Red
    /\ canvas.image[<<0, 0>>] = Black

\* C7: render never panics in put_pixel, and every put_pixel call of its loop
\* has a translated index with 0 <= buffer_x < W and 0 <= buffer_y < H.
C7_WritesInRange ==
    /\ pc # "panicked"
    /\ call.made =>
          /\ (canvas.width \div 2) + call.x \in 0..(canvas.width - 1)
          /\ (canvas.height \div 2) - (call.y + 1) \in 0..(canvas.height - 1)

\* render has returned on an odd-sized canvas after writing pixels
C7_Witness ==
    /\ pc = "done"
    /\ canvas.width = 3
    /\ canvas.height = 3
    /\ call.made

\* the loop's iterations, as the spec states them
LoopCells(cv) ==
    { <<(cv.width \div 2) + x, (cv.height \div 2) - (y + 1)>> :
        x \in (-(cv.width \div 2))..((cv.width \div 2) - 1),
        y \in (-(cv.height \div 2))..((cv.height \div 2) - 1) }

\* C8: render's loop terminates and render reaches its end; image.save is
\* called exactly once, only when every iteration of the loop has written its
\* pixel, and no pixel is written once it has been called.
C8_SaveOnceAfterLoop ==
    /\ <>(pc \in {"done", "save_failed"})
    /\ [](saves <= 1)
    /\ [](pc \in {"done", "save_failed"} => saves = 1)
    /\ [](saves = 1 => \A cell \in LoopCells(canvas) : writes[cell] = 1)
    /\ [][saves = 1 => (canvas' = canvas /\ writes' = writes /\ saves' = saves)]_vars
    /\ [][saves' # saves => pc = "save"]_vars

\* the image of a canvas with pixels has been saved and render has returned
C8_Witness ==
    /\ pc = "done"
    /\ saves = 1
    /\ canvas.width = 4
    /\ canvas.height = 2
    /\ \A cell \in Cells(4, 2) : writes[cell] = 1

\* C10 (as claimed): when the loop has finished, every one of the W*H cells
\* has been written exactly once.
C10_EveryCellWrittenOnce ==
    pc \in {"save", "done", "save_failed"} =>
        \A cell \in Cells(canvas.width, canvas.height) : writes[cell] = 1

---------------------------------------------------------------------------
(* TraceSpec: trace_ray(scene, origin, direction, t_min, t_max), one step   *)
(* for each sphere of the loop and one for the final match.                 *)

Green == <<0, 255, 0>>

Grey == <<10, 10, 10>>

Yellow == <<200, 200, 0>>

\* Spheres whose discriminant on a ray along the z axis is negative or a
\* perfect square: on the axis, beside it, touching it, and around the camera.
TraceSpheres ==
    { Sphere(Vec(0, 0, 3), 1, Red, Some(2)),
      Sphere(Vec(0, 0, 4), 2, Blue, None),
      Sphere(Vec(0, 0, 5), 1, Orange, Some(1)),
      Sphere(Vec(5, 0, 3), 1, Grey, Some(1)),
      Sphere(Vec(1, 0, 3), 1, Yellow, Some(1)),
      Sphere(Vec(0, 0, 0), 3, Green, None) }

RECURSIVE SeqsUpTo(_, _)
SeqsUpTo(S, n) ==
    IF n = 0 THEN {<<>>}
    ELSE LET shorter == SeqsUpTo(S, n - 1)
         IN  shorter \cup {Append(q, e) : q \in shorter, e \in S}

TraceLights ==
    { <<>>,
      <<Ambient(Frac(1, 2))>>,
      <<Ambient(Frac(3, 2))>>,
      <<Ambient(Frac(1, 2)), Ambient(Frac(1, 4))>>,
      <<Directional(Vec(-2, 0, 0), FromInt(1))>>,
      <<Ambient(Frac(1, 4)), Point(Vec(0, 0, 0), Frac(1, 2)),
        Directional(Vec(0, 0, -2), Frac(1, 4))>> }

TraceDirections == {Vec(0, 0, 1), Vec(0, 0, 2), Vec(0, 0, 0)}

\* <<t_min, t_max>>; render passes <<1.0, INFINITY>>
TraceRanges ==
    { <<FromInt(1), INFINITY>>, <<FromInt(2), FromInt(5)>>, <<FromInt(0), FromInt(3)>> }

TraceInit ==
    /\ \E objects \in SeqsUpTo(TraceSpheres, MaxObjects), lights \in TraceLights :
          scene = Scene(objects, lights)
    /\ \E direction \in TraceDirections, range \in TraceRanges :
          ray = [origin |-> Vec(0, 0, 0), direction |-> direction,
                 t_min |-> range[1], t_max |-> range[2]]
    /\ pc = "scan"
    /\ next = 1
    /\ closest_t = INFINITY
    /\ closest_sphere = 0
    /\ result = NoResult
    /\ canvas = NoCanvas
    /\ writes = <<>>
    /\ px = 0
    /\ py = 0
    /\ saves = 0
    /\ call = NoCall
    /\ arg = NoArg

\* one iteration of `for primitive in &scene.objects`
TraceScan ==
    /\ pc = "scan"
    /\ next <= Len(scene.objects)
    /\ LET hit == ScanSphere([t |-> closest_t, sphere |-> closest_sphere],
                             scene, ray, next)
       IN  /\ closest_t' = hit.t
           /\ closest_sphere' = hit.sphere
    /\ next' = next + 1
    /\ UNCHANGED <<scene, pc, canvas, writes, px, py, saves, call, ray, arg, result>>

\* `match closest_sphere`: the colour returned
TraceMatch ==
    /\ pc = "scan"
    /\ next > Len(scene.objects)
    /\ result' = Shade(scene, ray, [t |-> closest_t, sphere |-> closest_sphere])
    /\ pc' = "done"
    /\ UNCHANGED <<scene, canvas, writes, px, py, saves, call, ray, next,
                   closest_t, closest_sphere, arg>>

TraceNext == TraceScan \/ TraceMatch

TraceSpec == TraceInit /\ [][TraceNext]_vars

---------------------------------------------------------------------------
(* Claims about trace_ray. *)

\* t_min < t < t_max
InRange(t) == FLt(ray.t_min, t) /\ FLt(t, ray.t_max)

\* the roots t1, t2 of objects[i] on the ray
Roots(i) ==
    LET r == intersect_ray_sphere(ray.origin, ray.direction, scene.objects[i])
    IN  {r[1], r[2]}

\* the roots in range of the first k spheres
RootsInRange(k) == { t \in UNION { Roots(i) : i \in 1..k } : InRange(t) }

\* t is the minimum of the set S of f64 values
IsLeast(t, S) == t \in S /\ \A u \in S : ~FLt(u, t)

\* the spheres among the first k that have the smallest root in range
Nearest(k) ==
    LET inRange == RootsInRange(k)
    IN  { i \in 1..k : \E t \in Roots(i) : IsLeast(t, inRange) }

\* C1: when some root lies in range, the hit recorded after the scan has the
\* minimum of all roots in range as its t and a sphere with that root, and the
\* colour returned is the shading of that sphere at that t.
C1_ClosestHitIsMinimum ==
    LET inRange == RootsInRange(Len(scene.objects))
    IN  (pc = "done" /\ inRange # {}) =>
            /\ IsLeast(closest_t, inRange)
            /\ closest_sphere \in 1..Len(scene.objects)
            /\ closest_t \in Roots(closest_sphere)
            /\ \E t \in inRange :
                  /\ IsLeast(t, inRange)
                  /\ result = Shade(scene, ray, [t |-> t, sphere |-> closest_sphere])

\* two spheres on the ray, the nearer one second in the list, and its colour
\* returned
C1_Witness ==
    /\ pc = "done"
    /\ Len(scene.objects) = 2
    /\ scene.objects[1].center = Vec(0, 0, 5)
    /\ scene.objects[2].center = Vec(0, 0, 3)
    /\ scene.lights = <<Ambient(Frac(1, 2))>>
    /\ ray.direction = Vec(0, 0, 1)
    /\ ray.t_max = INFINITY
    /\ closest_sphere = 2
    /\ closest_t = FromInt(2)
    /\ result = <<127, 0, 0>>

Injective(p) == \A i \in DOMAIN p, j \in DOMAIN p : p[i] = p[j] => i = j

\* the permutations of the sequence q
Permutations(q) ==
    { [i \in 1..Len(q) |-> q[p[i]]] :
        p \in { f \in [1..Len(q) -> 1..Len(q)] : Injective(f) } }

\* the colour is the same for every order of the objects list
SameForEveryOrder ==
    \A objects \in Permutations(scene.objects) :
        trace_ray(Scene(objects, scene.lights), ray.origin, ray.direction,
                  ray.t_min, ray.t_max) = result

\* C2 (as claimed): trace_ray returns the same colour for every permutation of
\* the objects list.
C2_OrderIndependent == pc = "done" => SameForEveryOrder

\* C2 (amended): when at most one sphere of the list has the smallest root in
\* range, trace_ray returns the same colour for every permutation of the list.
C2_OrderIndependentWithoutTie ==
    (pc = "done" /\ Cardinality(Nearest(Len(scene.objects))) <= 1) => SameForEveryOrder

\* two different spheres are hit, one nearer than the other and second in the
\* list
C2_Witness ==
    /\ pc = "done"
    /\ Len(scene.objects) = 2
    /\ Roots(1) \cap RootsInRange(2) # {}
    /\ Roots(2) \cap RootsInRange(2) # {}
    /\ scene.objects[1].color # scene.objects[2].color
    /\ Nearest(2) = {2}
    /\ result # Background
    /\ result # Black

\* C3: when no sphere has a root in range, trace_ray returns the background
\* colour (255,255,255).
C3_MissIsBackground ==
    (pc = "done" /\ RootsInRange(Len(scene.objects)) = {}) => result = <<255, 255, 255>>

\* a sphere with a negative discriminant, scanned with t_max = INFINITY
C3_Witness ==
    /\ pc = "done"
    /\ Len(scene.objects) = 1
    /\ Roots(1) = {INFINITY}
    /\ ray.t_max = INFINITY
    /\ result = <<255, 255, 255>>

\* channel * k truncated to an integer and clamped to 255, for a fraction k >= 0
ClampedProduct(channel, k) ==
    IF (channel * k.n) \div k.d > 255 THEN 255 ELSE (channel * k.n) \div k.d

\* C4: with a single Ambient light of intensity I >= 0 as the only light, a
\* ray that hits a sphere gets that sphere's colour scaled by I and clamped.
C4_AmbientOnly ==
    (/\ pc = "done"
     /\ closest_sphere # 0
     /\ Len(scene.lights) = 1
     /\ scene.lights[1].kind = "Ambient"
     /\ scene.lights[1].intensity.d > 0
     /\ scene.lights[1].intensity.n >= 0) =>
        \A i \in Channels :
            result[i] = ClampedProduct(scene.objects[closest_sphere].color[i],
                                       scene.lights[1].intensity)

\* the orange sphere under an ambient light of 3/2: one channel clamped
C4_Witness ==
    /\ pc = "done"
    /\ closest_sphere # 0
    /\ scene.lights = <<Ambient(Frac(3, 2))>>
    /\ scene.objects[closest_sphere].color = <<200, 100, 50>>
    /\ result = <<255, 150, 75>>

\* C9: at every point of the scan, the sphere recorded is the first of the
\* spheres scanned so far that have the smallest root in range; the recorded
\* sphere changes only when closest_t becomes strictly smaller.
C9_FirstWinsTies ==
    /\ [](LET nearest == Nearest(next - 1)
            IN  nearest # {} =>
                  /\ closest_sphere \in nearest
                  /\ \A i \in nearest : closest_sphere <= i)
    /\ [][closest_sphere' # closest_sphere => FLt(closest_t', closest_t)]_vars

\* two different spheres share the smallest root in range; the first is kept
C9_Witness ==
    /\ pc = "done"
    /\ Len(scene.objects) = 2
    /\ scene.objects[1] # scene.objects[2]
    /\ Nearest(2) = {1, 2}
    /\ closest_sphere = 1

---------------------------------------------------------------------------
(* ScaleSpec: color.scale(scalar). *)

ChannelValues == {0, 1, 10, 127, 200, 255}

ScaleColors == ChannelValues \X ChannelValues \X ChannelValues

\* the quarters 0/4 .. MaxQuarters/4, a negative scalar, INFINITY and NaN
ScaleScalars ==
    { Frac(q, 4) : q \in 0..MaxQuarters } \cup { Frac(-1, 4), INFINITY, NaN }

ScaleInit ==
    /\ arg \in [color : ScaleColors, scalar : ScaleScalars]
    /\ pc = "call"
    /\ result = NoResult
    /\ scene = NoScene
    /\ canvas = NoCanvas
    /\ writes = <<>>
    /\ px = 0
    /\ py = 0
    /\ saves = 0
    /\ call = NoCall
    /\ ray = NoRay
    /\ next = 0
    /\ closest_t = INFINITY
    /\ closest_sphere = 0

ScaleCall ==
    /\ pc = "call"
    /\ result' = scale(arg.color, arg.scalar)
    /\ pc' = "done"
    /\ UNCHANGED <<scene, canvas, writes, px, py, saves, call, ray, next,
                   closest_t, closest_sphere, arg>>

ScaleNext == ScaleCall

ScaleSpec == ScaleInit /\ [][ScaleNext]_vars

\* C5: for a scalar k >= 0, every channel of scale(c, k) is in 0..255, and for
\* a finite k it is channel * k truncated to an integer and clamped to 255;
\* scale((200,0,0), 2) = (255,0,0) and scale((10,10,10), 0) = (0,0,0).
C5_ScaleClamps ==
    (pc = "done" /\ arg.scalar.n >= 0 /\ ~IsNaN(arg.scalar)) =>
        /\ \A i \in Channels : result[i] \in 0..255
        /\ arg.scalar.d > 0 =>
              \A i \in Channels : result[i] = ClampedProduct(arg.color[i], arg.scalar)
        /\ (arg.color = <<200, 0, 0>> /\ arg.scalar = FromInt(2)) => result = <<255, 0, 0>>
        /\ (arg.color = <<10, 10, 10>> /\ arg.scalar = FromInt(0)) => result = <<0, 0, 0>>

\* a channel whose product 200 * 9/4 = 450 exceeds 255, beside one that is
\* truncated (1 * 9/4) and one that stays 0
C5_Witness ==
    /\ pc = "done"
    /\ arg.color = <<200, 1, 0>>
    /\ arg.scalar = Frac(9, 4)
    /\ result = <<255, 2, 0>>

===========================================================================
